---- MODULE Spec2Model ----
(***************************************************************************)
(* DirectoryMirror: the scan-diff-dispatch loop of RunScanLoop (worker     *)
(* pool driver), its planner processChanges, the file operations writeFile *)
(* and deleteFile, and the tree scanner getDirFiles, over a small file     *)
(* system.                                                                 *)
(***************************************************************************)
EXTENDS Integers, Sequences, FiniteSets, TLC

\* ------------------------------------------------------------------ bounds
\* Largest configured MaxConcurrentWorkers (0 = one goroutine per operation).
MaxWorkers == 2
\* Number of cycles of the infinite loop that are explored.
MaxCycles == 2

\* ------------------------------------------------------------ file system
\* A location is the sequence of its names, the first naming where it hangs:
\* "src" the source root, "dest" the destination root, "out" the directory that
\* holds the destination root (<<"out", "a">> is the sibling of the destination
\* root whose name is the root's name followed by a).
SrcRoot == <<"src">>
DestRoot == <<"dest">>
Outside == <<"out">>
\* The relative paths an entry can have below a root.
Paths == {<<"a">>, <<"a", "b">>, <<"c">>}
LocsOf(root) == {root} \cup {root \o p : p \in Paths}
Locs == LocsOf(SrcRoot) \cup LocsOf(DestRoot) \cup LocsOf(Outside)

\* os.FileInfo as far as the program reads it.
Info(kind, perm, mtime, content) ==
    [kind |-> kind, perm |-> perm, mtime |-> mtime, content |-> content]
Absent == Info("none", "-", "-", "-")
Dir(perm, mtime) == Info("dir", perm, mtime, "-")
File(perm, mtime, content) == Info("file", perm, mtime, content)

\* filepath.Dir of a location.
Parent(l) == SubSeq(l, 1, Len(l) - 1)
\* The directories on the way to l, from its root down to its parent.
Ancestors(l) == {SubSeq(l, 1, n) : n \in 1..(Len(l) - 1)}
IsUnder(q, l) == Len(q) > Len(l) /\ SubSeq(q, 1, Len(l)) = l

\* A file system is well formed when every entry's parent is a directory.
WellFormed(t) ==
    \A l \in Locs : (t[l].kind # "none" /\ Len(l) > 1) => t[Parent(l)].kind = "dir"

\* os.Stat: "ok", "notexist" (fs.ErrNotExist) or "error" (a file on the way).
Stat(t, l) ==
    IF \E q \in Ancestors(l) : t[q].kind = "file" THEN "error"
    ELSE IF \E q \in Ancestors(l) \cup {l} : t[q].kind = "none" THEN "notexist"
    ELSE "ok"

\* The time a directory gets when an entry is created in it or removed from it.
Now == "now"
Touch(t, d) ==
    IF d \in Locs /\ t[d].kind = "dir" THEN [t EXCEPT ![d].mtime = Now] ELSE t

\* os.Chmod on an entry that exists.
Chmod(t, l, perm) == [t EXCEPT ![l].perm = perm]

\* os.MkdirAll: every missing directory on the way to l, l included, is created
\* with perm; directories that exist keep their permission bits.
MkdirAllOk(t, l) == \A q \in Ancestors(l) \cup {l} : t[q].kind \in {"none", "dir"}
MkdirAll(t, l, perm) ==
    LET chain == Ancestors(l) \cup {l}
        made == {q \in chain : t[q].kind = "none"}
    IN [q \in Locs |->
           IF q \in made THEN Dir(perm, Now)
           ELSE IF \E c \in made : Parent(c) = q THEN [t[q] EXCEPT !.mtime = Now]
           ELSE t[q]]

\* os.Create on l: the parent must be a directory and l must not be one.
CreateOk(t, l) ==
    Stat(t, Parent(l)) = "ok" /\ t[Parent(l)].kind = "dir" /\ t[l].kind # "dir"

\* os.Remove: a file, or an empty directory, that exists.
RemoveOk(t, l) ==
    /\ Stat(t, l) = "ok"
    /\ t[l].kind = "dir" => \A q \in Locs : IsUnder(q, l) => t[q].kind = "none"
Remove(t, l) == Touch([t EXCEPT ![l] = Absent], Parent(l))

\* os.RemoveAll: l and everything below it; a missing l is no error.
RemoveAllOk(t, l) == Stat(t, l) # "error"
RemoveAll(t, l) ==
    IF Stat(t, l) # "ok" THEN t
    ELSE Touch([q \in Locs |-> IF q = l \/ IsUnder(q, l) THEN Absent ELSE t[q]],
               Parent(l))

\* ------------------------------------------------------------ the program
VARIABLES
    fs,              \* the file system: location -> Info
    srcSep, dstSep,  \* SourceDirectory / DestinationDirectory end with a separator
    k,               \* configs.General.MaxConcurrentWorkers
    pc,              \* where RunScanLoop stands
    cycle,           \* the number of the current iteration of its loop
    srcFiles, destFiles,  \* the two snapshots of the iteration
    wg,              \* the counter of the iteration's sync.WaitGroup
    jobFuncs,        \* the operations processChanges returned
    i,               \* the index of the loop RunScanLoop is in
    workerChannels,  \* the buffered channel of operations
    workers,         \* the worker goroutines that have not returned
    running,         \* the calls of writeFile and deleteFile in progress
    executed,        \* how often each operation has been called in the iteration
    finished,        \* the operations whose call has returned in the iteration
    crashed,         \* the process has ended on a panic
    before           \* the file system as the iteration's scan found it

vars == <<fs, srcSep, dstSep, k, pc, cycle, srcFiles, destFiles, wg, jobFuncs, i,
          workerChannels, workers, running, executed, finished, crashed, before>>

\* ---- getDirFiles
\* The key strings.Replace(path, srcDir, "", 1) leaves for the entry at rel below
\* a root: it begins with a separator unless the root was written with one.
Key(lead, rel) == [lead |-> lead, rel |-> rel]
\* filepath.Walk with a callback that returns nil whatever error it is handed:
\* a root that cannot be read yields no entry and no error.
getDirFiles(t, root, sep) ==
    LET found == IF Stat(t, root) = "ok" /\ t[root].kind = "dir"
                 THEN {p \in Paths : t[root \o p].kind # "none"}
                 ELSE {}
    IN [key \in {Key(~sep, p) : p \in found} |-> t[root \o key.rel]]

\* ---- processChanges
\* filepath.Join(dir, key): cleaned, so always the entry below dir.
Join(root, key) == root \o key.rel
\* configs.General.DestinationDirectory + srcPath: plain concatenation; without
\* any separator between the two it names a sibling of the destination root.
Concat(sep, key) == IF sep \/ key.lead THEN DestRoot \o key.rel ELSE Outside \o key.rel

WriteJob(key, info, sep) ==
    [kind |-> "write", key |-> key, info |-> info,
     srcPath |-> Join(SrcRoot, key), path |-> Concat(sep, key)]
DeleteJob(key, info) ==
    [kind |-> "delete", key |-> key, info |-> info,
     srcPath |-> SrcRoot, path |-> Join(DestRoot, key)]

OrphansAll(src, dest) == DOMAIN dest
\* The keys left in destFiles after the first loop deleted every source key.
Orphans(src, dest) == (DOMAIN dest) \ (DOMAIN src)
Writes(src, sep) == {WriteJob(key, src[key], sep) : key \in DOMAIN src}
Deletes(src, dest) == {DeleteJob(key, dest[key]) : key \in Orphans(src, dest)}
\* The orders in which ranging over a map can visit a set.
Orders(S) ==
    {s \in [1..Cardinality(S) -> S] : \A m, n \in DOMAIN s : m # n => s[m] # s[n]}
\* The slices processChanges can return: the writes in the order the source map
\* was ranged over, then the deletes in the order of what is left of destFiles.
processChanges(src, dest, sep) ==
    {w \o d : w \in Orders(Writes(src, sep)), d \in Orders(Deletes(src, dest))}
PlannedCountNoDone(src, dest) == Cardinality(DOMAIN src) + Cardinality(DOMAIN dest)
\* wg.Add(len(srcFiles) + len(destFiles)), then one wg.Done() per source key
\* found in destFiles.
PlannedCount(src, dest) ==
    Cardinality(DOMAIN src) + Cardinality(DOMAIN dest)
        - Cardinality({key \in DOMAIN src : key \in DOMAIN dest})

\* ---- calls in progress
\* A call made in iteration n stands before its first statement.
Call(job, n) ==
    [job |-> job, cycle |-> n, at |-> IF job.kind = "write" THEN "validate" ELSE "remove"]
\* The pair validateDirExistance ends on: the entry itself for a directory, the
\* parent directory for a file.
DirOf(t, job) ==
    IF t[job.srcPath].kind = "dir"
    THEN [src |-> job.srcPath, dest |-> job.path]
    ELSE [src |-> Parent(job.srcPath), dest |-> Parent(job.path)]
Count(f, job) == IF job \in DOMAIN f THEN f[job] ELSE 0
Called(f, job) == [j \in (DOMAIN f) \cup {job} |-> IF j = job THEN Count(f, job) + 1 ELSE f[j]]

\* The iteration jobFuncs was planned in: the previous one until Plan replaces it.
Planned == IF pc \in {"scan", "plan"} THEN cycle - 1 ELSE cycle

\* ---- the inputs
\* A tree below root: the root's own entry, then a, a/b and c.
Tree(root, r, a, b, c) ==
    [l \in LocsOf(root) |->
        IF l = root THEN r
        ELSE IF l = root \o <<"a">> THEN a
        ELSE IF l = root \o <<"a", "b">> THEN b
        ELSE c]
SrcFile == File("p1", "T1", "X")
SourceTrees ==
    {Tree(SrcRoot, Dir("p1", "T1"), a, b, c) :
        a \in {Absent, SrcFile, Dir("p1", "T1")},
        b \in {Absent, SrcFile, Dir("p2", "T1")},
        c \in {Absent, SrcFile}}
    \cup {Tree(SrcRoot, Absent, Absent, Absent, Absent)}
\* A destination file is a faithful copy, differs in everything, or differs in
\* everything but its modification time.
DestFiles == {SrcFile, File("p2", "T2", "Y"), File("p2", "T1", "Y")}
DestDirs == {Dir("p1", "T2"), Dir("p2", "T1")}
DestTrees ==
    {Tree(DestRoot, Dir("p2", "T2"), a, b, c) :
        a \in {Absent} \cup DestFiles \cup DestDirs,
        b \in {Absent} \cup DestFiles \cup DestDirs,
        c \in {Absent} \cup DestFiles}
OutsideTree == Tree(Outside, Dir("p2", "T2"), Absent, Absent, Absent)
\* One file system out of a source tree, a destination tree and the outside.
Mount(s, d) ==
    [l \in Locs |->
        IF l \in LocsOf(SrcRoot) THEN s[l]
        ELSE IF l \in LocsOf(DestRoot) THEN d[l]
        ELSE OutsideTree[l]]
FileSystems == {t \in {Mount(s, d) : s \in SourceTrees, d \in DestTrees} : WellFormed(t)}

InitWith(systems, seps) ==
    /\ fs \in systems
    /\ srcSep \in seps
    /\ dstSep \in seps
    /\ k \in 0..MaxWorkers
    /\ pc = "scan"
    /\ cycle = 1
    /\ srcFiles = << >>
    /\ destFiles = << >>
    /\ wg = 0
    /\ jobFuncs = << >>
    /\ i = 0
    /\ workerChannels = << >>
    /\ workers = 0
    /\ running = {}
    /\ executed = << >>
    /\ finished = {}
    /\ crashed = FALSE
    /\ before = fs

\* Both roots are configured without a trailing separator.
Init == InitWith(FileSystems, {FALSE})

\* The file systems with entries at a and a/b only, whose destination entries
\* are copies of source entries or directories made earlier, for the runs over
\* the spellings of the two roots.
SepSystems ==
    {t \in FileSystems :
        /\ \A p \in Paths : t[DestRoot \o p] \in {Absent, SrcFile, Dir("p1", "T2")}
        /\ t[SrcRoot \o <<"c">>] = Absent /\ t[DestRoot \o <<"c">>] = Absent}
\* Each root is configured with or without a trailing separator.
InitSeps == InitWith(SepSystems, {FALSE, TRUE})

\* ---- RunScanLoop
\* srcFiles := getDirFiles(...); destFiles := getDirFiles(...)
Scan ==
    /\ pc = "scan" /\ ~crashed
    /\ srcFiles' = getDirFiles(fs, SrcRoot, srcSep)
    /\ destFiles' = getDirFiles(fs, DestRoot, dstSep)
    /\ before' = fs
    /\ pc' = "plan"
    /\ UNCHANGED <<fs, srcSep, dstSep, k, cycle, wg, jobFuncs, i, workerChannels,
                   workers, running, executed, finished, crashed>>

StartedOneMore(n) == IF n < 1 THEN 0 ELSE n + 1
\* The worker goroutines the loop over MaxConcurrentWorkers starts.
Started(n) == IF n < 1 THEN 0 ELSE n
NthLast(jobs, n) == jobs[Len(jobs)]
\* The operation the n-th round of a loop over jobFuncs handles.
Nth(jobs, n) == jobs[n]
LastSignalFirst(n, limit) == n = 1
\* The loop over doneSignal ends with its n-th send.
LastSignal(n, limit) == n = limit

\* The loop RunScanLoop enters for a slice of n operations.
Dispatch(n) == IF n = 0 THEN "wait" ELSE IF k < 1 THEN "spawn" ELSE "enqueue"

\* var wg; wg.Add(...); jobFuncs := processChanges(...); with a limit, the
\* channels are made and the workers started.
Plan ==
    /\ pc = "plan" /\ ~crashed
    /\ \E jobs \in processChanges(srcFiles, destFiles, dstSep) :
          /\ jobFuncs' = jobs
          /\ pc' = Dispatch(Len(jobs))
    /\ wg' = PlannedCount(srcFiles, destFiles)
    /\ workers' = Started(k)
    /\ workerChannels' = << >>
    /\ i' = 1
    /\ executed' = << >>
    /\ finished' = {}
    /\ UNCHANGED <<fs, srcSep, dstSep, k, cycle, srcFiles, destFiles, running,
                   crashed, before>>

\* go jobFunc(), once per operation.
Spawn ==
    /\ pc = "spawn" /\ ~crashed
    /\ running' = running \cup {Call(Nth(jobFuncs, i), cycle)}
    /\ executed' = Called(executed, Nth(jobFuncs, i))
    /\ i' = i + 1
    /\ pc' = IF i = Len(jobFuncs) THEN "wait" ELSE "spawn"
    /\ UNCHANGED <<fs, srcSep, dstSep, k, cycle, srcFiles, destFiles, wg, jobFuncs,
                   workerChannels, workers, finished, crashed, before>>

\* A send on a channel of capacity c holding q: appended when there is room.
CanSend(q, c) == Len(q) < c
\* workerChannels <- jobFunc, once per operation; blocks while the channel is full.
Enqueue ==
    /\ pc = "enqueue" /\ ~crashed
    /\ CanSend(workerChannels, k)
    /\ workerChannels' = Append(workerChannels, Nth(jobFuncs, i))
    /\ i' = i + 1
    /\ pc' = IF i = Len(jobFuncs) THEN "wait" ELSE "enqueue"
    /\ UNCHANGED <<fs, srcSep, dstSep, k, cycle, srcFiles, destFiles, wg, jobFuncs,
                   workers, running, executed, finished, crashed, before>>

\* The workers that stand in their select: those that run no operation.
Idle == workers - Cardinality(running)

\* case jobFunc := <-workerChannels: jobFunc()
Receive ==
    /\ ~crashed /\ k >= 1
    /\ Idle > 0
    /\ workerChannels # << >>
    /\ workerChannels' = Tail(workerChannels)
    /\ running' = running \cup {Call(Head(workerChannels), cycle)}
    /\ executed' = Called(executed, Head(workerChannels))
    /\ UNCHANGED <<fs, srcSep, dstSep, k, pc, cycle, srcFiles, destFiles, wg,
                   jobFuncs, i, workers, finished, crashed, before>>

WaitOverEarly(n) == n <= 1
\* wg.Wait() returns when the counter is zero.
WaitOver(n) == n = 0
Wait ==
    /\ pc = "wait" /\ ~crashed
    /\ WaitOver(wg)
    /\ pc' = IF k < 1 THEN "sleep" ELSE "signal"
    /\ i' = 0
    /\ UNCHANGED <<fs, srcSep, dstSep, k, cycle, srcFiles, destFiles, wg, jobFuncs,
                   workerChannels, workers, running, executed, finished, crashed,
                   before>>

\* doneSignal <- 0 meets case <-doneSignal of a worker in its select, which returns.
Signal ==
    /\ pc = "signal" /\ ~crashed
    /\ Idle > 0
    /\ workers' = workers - 1
    /\ i' = i + 1
    /\ pc' = IF LastSignal(i + 1, k) THEN "sleep" ELSE "signal"
    /\ UNCHANGED <<fs, srcSep, dstSep, k, cycle, srcFiles, destFiles, wg, jobFuncs,
                   workerChannels, running, executed, finished, crashed, before>>

\* time.Sleep(...), then the next iteration.
Sleep ==
    /\ pc = "sleep" /\ ~crashed
    /\ cycle < MaxCycles
    /\ cycle' = cycle + 1
    /\ pc' = "scan"
    /\ UNCHANGED <<fs, srcSep, dstSep, k, srcFiles, destFiles, wg, jobFuncs, i,
                   workerChannels, workers, running, executed, finished, crashed,
                   before>>

\* ---- writeFile and deleteFile
\* What a call leaves unchanged besides the file system, the counter and itself.
CallFrame ==
    UNCHANGED <<srcSep, dstSep, k, pc, cycle, srcFiles, destFiles, jobFuncs, i,
                workerChannels, workers, executed, crashed, before>>

DoneForgotten(n) == n
\* The counter after wg.Done().
Done(n) == n - 1

\* The call moves on to its next statement.
Goto(c, at) ==
    /\ running' = (running \ {c}) \cup {[c EXCEPT !.at = at]}
    /\ UNCHANGED <<wg, finished>>

\* The call returns: the deferred wg.Done() runs.
Return(c) ==
    /\ running' = running \ {c}
    /\ wg' = Done(wg)
    /\ finished' = finished \cup {c.job}

\* validateDirExistance up to the os.Stat of the destination directory.
Validate ==
    /\ ~crashed
    /\ \E c \in running :
          /\ c.at = "validate"
          /\ IF Stat(fs, c.job.srcPath) # "ok" THEN Goto(c, "panic")
             ELSE LET st == Stat(fs, DirOf(fs, c.job).dest)
                  IN Goto(c, IF st = "ok" THEN "chmod"
                             ELSE IF st = "notexist" THEN "mkdir"
                             ELSE "panic")
    /\ UNCHANGED fs
    /\ CallFrame

\* After validateDirExistance: a directory is done, a file is compared.
AfterValidate(c) ==
    IF c.job.info.kind = "dir" THEN Return(c) ELSE Goto(c, "stat")

\* os.Chmod(destPath, srcPathInfo.Mode().Perm()) on the directory found.
ChmodDir ==
    /\ ~crashed
    /\ \E c \in running :
          /\ c.at = "chmod"
          /\ LET d == DirOf(fs, c.job)
             IN IF Stat(fs, d.dest) = "ok"
                THEN fs' = Chmod(fs, d.dest, fs[d.src].perm) /\ AfterValidate(c)
                ELSE UNCHANGED fs /\ Goto(c, "panic")
    /\ CallFrame

\* os.MkdirAll(destPath, srcPathInfo.Mode().Perm()) for the directory not found.
MkdirDir ==
    /\ ~crashed
    /\ \E c \in running :
          /\ c.at = "mkdir"
          /\ LET d == DirOf(fs, c.job)
             IN IF MkdirAllOk(fs, d.dest)
                THEN fs' = MkdirAll(fs, d.dest, fs[d.src].perm) /\ AfterValidate(c)
                ELSE UNCHANGED fs /\ Goto(c, "panic")
    /\ CallFrame

UnchangedIfThere(t, job) == Stat(t, job.path) = "ok"
\* The file is left alone when the destination exists with the record's time.
Unchanged(t, job) ==
    Stat(t, job.path) = "ok" /\ t[job.path].mtime = job.info.mtime

\* os.Stat(path) and the comparison of the modification times.
StatFile ==
    /\ ~crashed
    /\ \E c \in running :
          /\ c.at = "stat"
          /\ IF Stat(fs, c.job.path) = "error" THEN Goto(c, "panic")
             ELSE IF Unchanged(fs, c.job) THEN Return(c)
             ELSE Goto(c, "copy")
    /\ UNCHANGED fs
    /\ CallFrame

\* copyFile(srcPath, path), os.Chmod(path, ...), os.Chtimes(path, ...): the file
\* system they leave.
Copied(t, job) ==
    LET made == Touch(t, IF t[job.path].kind = "none" THEN Parent(job.path) ELSE <<>>)
    IN IF t[job.srcPath].kind = "file"
       THEN [made EXCEPT ![job.path] =
                File(job.info.perm, job.info.mtime, t[job.srcPath].content)]
       ELSE [t EXCEPT ![job.path].perm = job.info.perm,
                      ![job.path].mtime = job.info.mtime]
\* They succeed when the source can be read and, for a regular file, the
\* destination can be created; copyFile copies nothing from what is no regular
\* file, and os.Chmod then needs the destination to exist.
CopyOk(t, job) ==
    /\ Stat(t, job.srcPath) = "ok"
    /\ IF t[job.srcPath].kind = "file"
       THEN CreateOk(t, job.path)
       ELSE Stat(t, job.path) = "ok"

CopyFile ==
    /\ ~crashed
    /\ \E c \in running :
          /\ c.at = "copy"
          /\ IF CopyOk(fs, c.job)
             THEN fs' = Copied(fs, c.job) /\ Return(c)
             ELSE UNCHANGED fs /\ Goto(c, "panic")
    /\ CallFrame

\* deleteFile: os.RemoveAll for a record of a directory, os.Remove otherwise.
Removed(t, job) ==
    IF job.info.kind = "dir" THEN RemoveAll(t, job.path) ELSE Remove(t, job.path)
RemovedOk(t, job) ==
    IF job.info.kind = "dir" THEN RemoveAllOk(t, job.path) ELSE RemoveOk(t, job.path)

DeleteFile ==
    /\ ~crashed
    /\ \E c \in running :
          /\ c.at = "remove"
          /\ IF RemovedOk(fs, c.job)
             THEN fs' = Removed(fs, c.job) /\ Return(c)
             ELSE UNCHANGED fs /\ Goto(c, "panic")
    /\ CallFrame

\* panic(err) in a call: its deferred wg.Done() runs first ...
Unwind ==
    /\ ~crashed
    /\ \E c \in running :
          /\ c.at = "panic"
          /\ running' = (running \ {c}) \cup {[c EXCEPT !.at = "fatal"]}
          /\ wg' = Done(wg)
          /\ finished' = finished
    /\ UNCHANGED fs
    /\ CallFrame

\* ... then the runtime ends the process.
Crash ==
    /\ ~crashed
    /\ \E c \in running : c.at = "fatal"
    /\ crashed' = TRUE
    /\ UNCHANGED <<fs, srcSep, dstSep, k, pc, cycle, srcFiles, destFiles, wg, jobFuncs,
                   i, workerChannels, workers, running, executed, finished, before>>

Next ==
    \/ Scan \/ Plan \/ Spawn \/ Enqueue \/ Receive \/ Wait \/ Signal \/ Sleep
    \/ Validate \/ ChmodDir \/ MkdirDir \/ StatFile \/ CopyFile \/ DeleteFile
    \/ Unwind \/ Crash

Spec == Init /\ [][Next]_vars

\* ---- the loop under fair scheduling
\* The iterations after MaxCycles are not numbered any further: the loop goes
\* on with the same statements.
Resume ==
    /\ pc = "sleep" /\ ~crashed
    /\ cycle = MaxCycles
    /\ pc' = "scan"
    /\ UNCHANGED <<fs, srcSep, dstSep, k, cycle, srcFiles, destFiles, wg, jobFuncs, i,
                   workerChannels, workers, running, executed, finished, crashed,
                   before>>

NextFair == Next \/ Resume

\* The goroutine of RunScanLoop; a send on doneSignal is its step.
Driver == Scan \/ Plan \/ Spawn \/ Enqueue \/ Wait \/ Signal \/ Sleep \/ Resume
\* The goroutines that run writeFile and deleteFile.
Calls ==
    Validate \/ ChmodDir \/ MkdirDir \/ StatFile \/ CopyFile \/ DeleteFile \/ Unwind
\* The scheduler runs every goroutine that can take a step.
Fairness ==
    /\ WF_vars(Driver)
    /\ WF_vars(Receive)
    /\ WF_vars(Calls)
    /\ WF_vars(Crash)

SpecFair == Init /\ [][NextFair]_vars /\ Fairness

SpecSeps == InitSeps /\ [][Next]_vars

\* ---- watcher.go: one goroutine per file, started by processChanges
\* watcher.go reads no MaxConcurrentWorkers; its trees have entries at a and a/b.
OldSystems ==
    {t \in FileSystems : t[SrcRoot \o <<"c">>] = Absent /\ t[DestRoot \o <<"c">>] = Absent}
OldInit == InitWith(OldSystems, {FALSE}) /\ k = 0

\* go writeFile(...) / go deleteFile(...): the goroutine stands before wg.Add(1).
OldCall(job, n) == [Call(job, n) EXCEPT !.at = "add"]

\* var wg sync.WaitGroup; processChanges(...) up to its first go statement, the
\* maps ranged over in one of their orders.
OldPlan ==
    /\ pc = "plan" /\ ~crashed
    /\ \E jobs \in processChanges(srcFiles, destFiles, dstSep) :
          /\ jobFuncs' = jobs
          /\ pc' = IF Len(jobs) = 0 THEN "wait" ELSE "spawn"
    /\ wg' = 0
    /\ i' = 1
    /\ executed' = << >>
    /\ finished' = {}
    /\ UNCHANGED <<fs, srcSep, dstSep, k, cycle, srcFiles, destFiles, workerChannels,
                   workers, running, crashed, before>>

\* The next go statement of processChanges.
OldSpawn ==
    /\ pc = "spawn" /\ ~crashed
    /\ running' = running \cup {OldCall(Nth(jobFuncs, i), cycle)}
    /\ executed' = Called(executed, Nth(jobFuncs, i))
    /\ i' = i + 1
    /\ pc' = IF i = Len(jobFuncs) THEN "wait" ELSE "spawn"
    /\ UNCHANGED <<fs, srcSep, dstSep, k, cycle, srcFiles, destFiles, wg, jobFuncs,
                   workerChannels, workers, finished, crashed, before>>

\* The call's WaitGroup is the one RunScanLoop holds: the call was started in
\* the iteration whose wg the loop has declared last.
Mine(c) == c.cycle = Planned
\* The counter after wg.Add(1).
Add(n) == n + 1

\* wg.Add(1), the first statement of writeFile and of deleteFile.
OldAdd ==
    /\ ~crashed
    /\ \E c \in running :
          /\ c.at = "add"
          /\ running' = (running \ {c}) \cup {Call(c.job, c.cycle)}
          /\ wg' = IF Mine(c) THEN Add(wg) ELSE wg
    /\ UNCHANGED <<fs, finished>>
    /\ CallFrame

\* The call returns: the deferred wg.Done() runs on the call's WaitGroup.
OldReturn(c) ==
    /\ running' = running \ {c}
    /\ wg' = IF Mine(c) THEN Done(wg) ELSE wg
    /\ finished' = IF Mine(c) THEN finished \cup {c.job} ELSE finished
OldAfterValidate(c) ==
    IF c.job.info.kind = "dir" THEN OldReturn(c) ELSE Goto(c, "stat")

\* os.Chmod(destPath, ...), its error dropped.
OldChmodDir ==
    /\ ~crashed
    /\ \E c \in running :
          /\ c.at = "chmod"
          /\ LET d == DirOf(fs, c.job)
             IN fs' = IF Stat(fs, d.dest) = "ok"
                      THEN Chmod(fs, d.dest, fs[d.src].perm) ELSE fs
          /\ OldAfterValidate(c)
    /\ CallFrame

\* os.Mkdir: the directory alone, in a parent directory that exists.
MkdirOk(t, l) == t[l].kind = "none" /\ Stat(t, Parent(l)) = "ok" /\ t[Parent(l)].kind = "dir"
\* os.Mkdir(destPath, ...), its error dropped.
OldMkdirDir ==
    /\ ~crashed
    /\ \E c \in running :
          /\ c.at = "mkdir"
          /\ LET d == DirOf(fs, c.job)
             IN fs' = IF MkdirOk(fs, d.dest)
                      THEN MkdirAll(fs, d.dest, fs[d.src].perm) ELSE fs
          /\ OldAfterValidate(c)
    /\ CallFrame

\* os.Stat(path) and the comparison of the modification times, as in StatFile.
OldStatFile ==
    /\ ~crashed
    /\ \E c \in running :
          /\ c.at = "stat"
          /\ IF Stat(fs, c.job.path) = "error" THEN Goto(c, "panic")
             ELSE IF Unchanged(fs, c.job) THEN OldReturn(c)
             ELSE Goto(c, "copy")
    /\ UNCHANGED fs
    /\ CallFrame

\* copyFile(srcPath, path), which panics as in CopyFile; then os.Chmod and
\* os.Chtimes, their errors dropped.
OldCopyFile ==
    /\ ~crashed
    /\ \E c \in running :
          /\ c.at = "copy"
          /\ IF Stat(fs, c.job.srcPath) # "ok"
             THEN UNCHANGED fs /\ Goto(c, "panic")
             ELSE IF fs[c.job.srcPath].kind = "file" /\ ~CreateOk(fs, c.job.path)
             THEN UNCHANGED fs /\ Goto(c, "panic")
             ELSE /\ fs' = IF fs[c.job.srcPath].kind = "file" \/ Stat(fs, c.job.path) = "ok"
                           THEN Copied(fs, c.job) ELSE fs
                  /\ OldReturn(c)
    /\ CallFrame

\* deleteFile: os.RemoveAll or os.Remove, the error dropped.
OldDeleteFile ==
    /\ ~crashed
    /\ \E c \in running :
          /\ c.at = "remove"
          /\ fs' = IF RemovedOk(fs, c.job) THEN Removed(fs, c.job) ELSE fs
          /\ OldReturn(c)
    /\ CallFrame

\* panic in a call: the deferred wg.Done() runs on the call's WaitGroup.
OldUnwind ==
    /\ ~crashed
    /\ \E c \in running :
          /\ c.at = "panic"
          /\ running' = (running \ {c}) \cup {[c EXCEPT !.at = "fatal"]}
          /\ wg' = IF Mine(c) THEN Done(wg) ELSE wg
          /\ finished' = finished
    /\ UNCHANGED fs
    /\ CallFrame

\* RunScanLoop of watcher.go scans, waits and sleeps with the statements of Scan,
\* Wait and Sleep; validateDirExistance panics where Validate does (on a source
\* os.Stat that fails, by the method call on the nil FileInfo).
NextOld ==
    \/ Scan \/ OldPlan \/ OldSpawn \/ Wait \/ Sleep
    \/ OldAdd \/ Validate \/ OldChmodDir \/ OldMkdirDir \/ OldStatFile \/ OldCopyFile
    \/ OldDeleteFile \/ OldUnwind \/ Crash

SpecOld == OldInit /\ [][NextOld]_vars

\* ---- copyFile step by step, beside a writer of the source
\* The trees with entries at a and a/b, the destination entries older than the
\* source's.
CopySystems ==
    {t \in OldSystems :
        \A p \in Paths : t[DestRoot \o p] \in {Absent, File("p2", "T2", "Y"), Dir("p1", "T2")}}
CopyInit == InitWith(CopySystems, {FALSE})

\* os.FileInfo.Size(): the length of the content.
Size(content) ==
    CASE content = "" -> 0
      [] content = "X" -> 1
      [] content = "Y" -> 1
      [] content = "XX" -> 2
      [] OTHER -> 0

\* Another process rewrites a source file: longer, with a later time.
SourceWrite ==
    /\ ~crashed
    /\ \E p \in Paths :
          /\ fs[SrcRoot \o p].kind = "file" /\ fs[SrcRoot \o p].content = "X"
          /\ fs' = [fs EXCEPT ![SrcRoot \o p].content = "XX", ![SrcRoot \o p].mtime = "T3"]
    /\ UNCHANGED <<srcSep, dstSep, k, pc, cycle, srcFiles, destFiles, wg, jobFuncs, i,
                   workerChannels, workers, running, executed, finished, crashed,
                   before>>

\* os.Create(dst): a new empty file, or the file that is there cut to nothing.
Created(t, l) ==
    IF t[l].kind = "file"
    THEN [t EXCEPT ![l].content = "", ![l].mtime = Now]
    ELSE Touch([t EXCEPT ![l] = File("rw", Now, "")], Parent(l))

\* copyFile from its os.Stat(src) to os.Create(dst): the call keeps
\* sourceFileStat.Size(). What is no regular file is not copied, and os.Chmod
\* and os.Chtimes follow at once.
CopyStat ==
    /\ ~crashed
    /\ \E c \in running :
          /\ c.at = "copy"
          /\ IF ~CopyOk(fs, c.job)
             THEN UNCHANGED fs /\ Goto(c, "panic")
             ELSE IF fs[c.job.srcPath].kind # "file"
             THEN fs' = Copied(fs, c.job) /\ Return(c)
             ELSE /\ fs' = Created(fs, c.job.path)
                  /\ running' = (running \ {c}) \cup
                        {[job |-> c.job, cycle |-> c.cycle, at |-> "io",
                          size |-> Size(fs[c.job.srcPath].content)]}
                  /\ UNCHANGED <<wg, finished>>
    /\ CallFrame

SizeCheckSkipped(written, size) == TRUE
\* written != sourceFileStat.Size() is a panic.
SizeCheck(written, size) == written = size

\* io.Copy(destination, source) and the check of what it wrote; then
\* os.Chmod(path, ...) and os.Chtimes(path, ...) of writeFile.
CopyIo ==
    /\ ~crashed
    /\ \E c \in running :
          /\ c.at = "io"
          /\ IF Stat(fs, c.job.srcPath) = "ok" /\ Stat(fs, c.job.path) = "ok"
                /\ SizeCheck(Size(fs[c.job.srcPath].content), c.size)
             THEN fs' = Copied(fs, c.job) /\ Return(c)
             ELSE /\ fs' = IF Stat(fs, c.job.srcPath) = "ok" /\ Stat(fs, c.job.path) = "ok"
                           THEN [fs EXCEPT ![c.job.path].content = fs[c.job.srcPath].content]
                           ELSE fs
                  /\ Goto(c, "panic")
    /\ CallFrame

NextCopy ==
    \/ Scan \/ Plan \/ Spawn \/ Enqueue \/ Receive \/ Wait \/ Signal \/ Sleep
    \/ Validate \/ ChmodDir \/ MkdirDir \/ StatFile \/ CopyStat \/ CopyIo \/ DeleteFile
    \/ Unwind \/ Crash \/ SourceWrite

SpecCopy == CopyInit /\ [][NextCopy]_vars

\* ------------------------------------------------------------- properties
Range(seq) == {seq[n] : n \in DOMAIN seq}
\* No call has panicked.
Clean == \A c \in running : c.at \notin {"panic", "fatal"}
\* The operations of that iteration whose call is over, returned or unwound.
Over == finished \cup {c.job : c \in {d \in running : d.at = "fatal" /\ d.cycle = Planned}}
\* RunScanLoop is past wg.Wait() of the iteration whose operations jobFuncs holds.
PastWait == pc \in {"signal", "sleep", "scan", "plan"}
\* The entries below the destination root.
DestPart(t) == [l \in LocsOf(DestRoot) |-> t[l]]

\* C1: once wg.Wait() has returned, and so when the next scan begins, every
\* operation the iteration planned has been called and its call is over: none
\* waits in the channel, none is still to be started, none is executing.
C1_BarrierBeforeNextScan ==
    PastWait =>
        /\ workerChannels = << >>
        /\ \A job \in Range(jobFuncs) : Count(executed, job) >= 1
        /\ \A c \in running : c.at = "fatal"
C1_Witness ==
    /\ pc = "scan" /\ cycle > 1 /\ k >= 1 /\ Len(jobFuncs) > k
    /\ Range(jobFuncs) \subseteq finished
    /\ \E w, d \in Range(jobFuncs) : w.kind = "write" /\ d.kind = "delete"

\* C2: with MaxConcurrentWorkers = k >= 1 at most k calls of writeFile and
\* deleteFile are in progress in any reachable state.
C2_AtMostKExecuting == k >= 1 => Cardinality(running) <= k
C2_Witness ==
    /\ k >= 2 /\ Len(jobFuncs) > k /\ Cardinality(running) = k /\ pc = "enqueue"

\* C5: the slice processChanges returns holds exactly one write per key of the
\* source snapshot, exactly one delete per key that only the destination
\* snapshot has, and nothing else: no key gets two operations.
C5_PlanIsExact ==
    pc # "plan" =>
        /\ \A key \in DOMAIN srcFiles :
              Cardinality({n \in DOMAIN jobFuncs : jobFuncs[n].key = key}) = 1
              /\ \E n \in DOMAIN jobFuncs :
                    jobFuncs[n].key = key /\ jobFuncs[n].kind = "write"
        /\ \A key \in (DOMAIN destFiles) \ (DOMAIN srcFiles) :
              Cardinality({n \in DOMAIN jobFuncs : jobFuncs[n].key = key}) = 1
              /\ \E n \in DOMAIN jobFuncs :
                    jobFuncs[n].key = key /\ jobFuncs[n].kind = "delete"
        /\ \A n \in DOMAIN jobFuncs :
              jobFuncs[n].key \in (DOMAIN srcFiles) \cup (DOMAIN destFiles)
C5_Witness ==
    /\ pc = "wait" /\ Len(jobFuncs) > 2
    /\ \E key \in DOMAIN srcFiles : key \in DOMAIN destFiles
    /\ \E key \in DOMAIN srcFiles : key \notin DOMAIN destFiles
    /\ \E key \in DOMAIN destFiles : key \notin DOMAIN srcFiles

\* C7: the counter of the WaitGroup is never negative and always equals the
\* number of planned operations whose call is not over; after processChanges that
\* number of operations is |src| + |dest| - |keys in both|.
C7_CounterIsExact ==
    /\ wg >= 0
    /\ wg = Len(jobFuncs) - Cardinality(Over)
    /\ pc \notin {"scan", "plan"} =>
          Len(jobFuncs) = Cardinality((DOMAIN srcFiles) \cup (DOMAIN destFiles))
    /\ (wg = 0 /\ pc \notin {"scan", "plan"}) => Range(jobFuncs) \subseteq Over
C7_Witness ==
    /\ pc = "wait" /\ wg = 0 /\ Len(jobFuncs) > 2 /\ Clean
    /\ \E key \in DOMAIN srcFiles : key \in DOMAIN destFiles
    /\ \E key \in DOMAIN destFiles : key \notin DOMAIN srcFiles

\* C8: in both modes every planned operation is called exactly once, as the
\* record it was planned as: never twice, never an operation that was not
\* planned, and none is left out when wg.Wait() returns.
C8_EachOnce ==
    /\ \A job \in DOMAIN executed : executed[job] = 1 /\ job \in Range(jobFuncs)
    /\ \A c \in running : c.cycle = Planned => Count(executed, c.job) = 1
    /\ PastWait => \A n \in DOMAIN jobFuncs : Count(executed, jobFuncs[n]) = 1
    /\ (PastWait /\ Clean) => finished = Range(jobFuncs)
C8_Witness ==
    /\ pc = "sleep" /\ k < 1 /\ Len(jobFuncs) > 2 /\ finished = Range(jobFuncs)

\* C9: with k >= 1 workers, a worker returns only on a termination signal sent
\* after every operation was enqueued and the counter reached zero; the i-th
\* signal leaves k - i workers; at the sleep, and when the next iteration starts,
\* k signals were sent, no worker is left and the channel is empty.
C9_ShutdownHandshake ==
    k >= 1 =>
        /\ (workers < k /\ pc \notin {"scan", "plan"}) =>
              /\ pc \in {"signal", "sleep"}
              /\ wg = 0
              /\ workerChannels = << >>
              /\ \A job \in Range(jobFuncs) : Count(executed, job) = 1
              /\ workers = k - i
        /\ pc = "signal" => i < k
        /\ (pc = "sleep" \/ (pc \in {"scan", "plan"} /\ cycle > 1)) =>
              workers = 0 /\ i = k /\ workerChannels = << >>
C9_Witness ==
    /\ pc = "scan" /\ cycle > 1 /\ k >= 2 /\ Len(jobFuncs) > k
    /\ workers = 0 /\ i = k

\* C3: when the first iteration has completed, the destination has exactly
\* the relative paths of the source, and wherever either side has a regular
\* file the destination entry equals the source entry in type, content,
\* permission bits and modification time.
C3_Convergence ==
    (cycle = 1 /\ pc = "sleep" /\ Clean) =>
        /\ \A p \in Paths :
              (fs[DestRoot \o p].kind = "none") <=> (fs[SrcRoot \o p].kind = "none")
        /\ \A p \in Paths :
              (fs[SrcRoot \o p].kind = "file" \/ fs[DestRoot \o p].kind = "file")
                  => fs[DestRoot \o p] = fs[SrcRoot \o p]

\* The destination has, at every relative path, the type the source has there.
KindsAgree(t) == \A p \in Paths : t[DestRoot \o p].kind = t[SrcRoot \o p].kind
\* C4: in an iteration that follows a completed one (even one that left every
\* path with the type it has in the source) no delete is planned, no call gets
\* to copy a file or to create a directory, and at the end of the iteration the
\* destination tree is what its scan found.
C4_Idempotence ==
    (cycle > 1 /\ Clean /\ pc \notin {"scan", "plan"} /\ KindsAgree(before)) =>
        /\ \A job \in Range(jobFuncs) : job.kind = "write"
        /\ \A c \in running : c.at \notin {"copy", "mkdir"}
        /\ pc = "sleep" => DestPart(fs) = DestPart(before)

\* The destination locations an operation is there to change: the path a write
\* creates or overwrites, the files a delete removes (its own path, and for a
\* directory the files below it).
Targets(t, job) ==
    IF job.kind = "write" THEN {job.path}
    ELSE {q \in Locs : /\ q = job.path \/ (job.info.kind = "dir" /\ IsUnder(q, job.path))
                       /\ t[q].kind = "file"}
\* C6: in an iteration whose scan could read the source root, writes and
\* deletes have different destination paths, and no two calls in progress have
\* a target location in common.
C6_DisjointTargets ==
    Stat(before, SrcRoot) = "ok" =>
        /\ \A w, d \in Range(jobFuncs) :
              (w.kind = "write" /\ d.kind = "delete") => w.path # d.path
        /\ \A c, d \in running :
              (c # d /\ Clean) => Targets(fs, c.job) \cap Targets(fs, d.job) = {}

\* C10: getDirFiles ends the process when the root cannot be read, so the
\* operations of an iteration are never planned from the snapshot of a source
\* root that was missing when it was scanned.
C10_FailedScanIsFatal ==
    (pc \notin {"scan", "plan"} /\ jobFuncs # << >>) => Stat(before, SrcRoot) = "ok"

\* C11: in an iteration whose scan could read the source root, a call of
\* deleteFile that stands before its removal finds its target in the destination
\* tree, and no call of deleteFile ends in a panic.
C11_DeleteTargetExists ==
    Stat(before, SrcRoot) = "ok" =>
        \A c \in running :
            c.job.kind = "delete" =>
                /\ c.at = "remove" => Stat(fs, c.job.path) = "ok"
                /\ c.at \notin {"panic", "fatal"}

\* No regular file stands in the destination where the source has a directory.
NoFileInTheWay(t) ==
    \A p \in Paths : t[SrcRoot \o p].kind = "dir" => t[DestRoot \o p].kind # "file"
\* C13: when the first iteration has completed without a panic (and no file of
\* the destination stood where the source has a directory), every directory of
\* the source snapshot is a directory of the destination with the permission
\* bits of the source directory.
C13_DirectoryPermissions ==
    (cycle = 1 /\ pc = "sleep" /\ Clean /\ NoFileInTheWay(before)) =>
        \A key \in DOMAIN srcFiles :
            srcFiles[key].kind = "dir" =>
                /\ fs[DestRoot \o key.rel].kind = "dir"
                /\ fs[DestRoot \o key.rel].perm = srcFiles[key].perm

\* C17: once a call has panicked the loop starts no further iteration: no scan
\* is taken, and no operations are planned, in an iteration later than the one
\* of a call that has panicked.
C17_FailureStopsTheLoop ==
    \A c \in running :
        c.at \in {"panic", "fatal"} => ~(pc = "plan" /\ cycle > c.cycle)

\* The call c takes the step: it leaves the position it stands at.
Moves(c) == c \in running /\ c \notin running'
\* The call c returns with the step.
Returns(c) == Moves(c) /\ \A at \in {"panic", "fatal"} : [c EXCEPT !.at = at] \notin running'
\* C14: a write of a regular file goes on to the copy exactly when the
\* destination is absent or has another modification time than the record,
\* whatever its content; a copy that completes leaves the destination a file
\* with the source's content and the record's permission bits and modification
\* time; with equal times the call returns and no step of it has changed the
\* destination entry; a write of a directory never gets to compare or copy.
C14_CopyIffTimeDiffers ==
    [][\A c \in running :
          LET job == c.job
              there == Stat(fs, job.path) = "ok"
          IN /\ (Moves(c) /\ c.at = "stat" /\ Stat(fs, job.path) # "error") =>
                   IF there /\ fs[job.path].mtime = job.info.mtime
                   THEN Returns(c) /\ fs' = fs
                   ELSE [c EXCEPT !.at = "copy"] \in running' /\ fs' = fs
             /\ (Returns(c) /\ c.at = "copy") =>
                   fs'[job.path] = File(job.info.perm, job.info.mtime,
                                        fs[job.srcPath].content)
             /\ (Moves(c) /\ job.kind = "write" /\ job.info.kind = "file"
                    /\ c.at \in {"validate", "chmod", "mkdir"}) =>
                   fs'[job.path] = fs[job.path]
             /\ (Moves(c) /\ job.info.kind = "dir") =>
                   \A at \in {"stat", "copy"} : [c EXCEPT !.at = at] \notin running'
      ]_vars
C14_Witness ==
    /\ pc = "sleep" /\ cycle = 1 /\ Clean
    /\ \E same, other \in finished :
          /\ same.kind = "write" /\ other.kind = "write"
          /\ before[same.path] = File("p2", "T1", "Y")
          /\ fs[same.path] = before[same.path]
          /\ before[other.path] = File("p2", "T2", "Y")
          /\ fs[other.path] = fs[other.srcPath]

\* C12: under fair scheduling, in a run in which no call ever panics, the
\* loop reaches its sleep again and again and begins a scan again and again,
\* for every number of operations and every MaxConcurrentWorkers: no iteration
\* gets stuck in the enqueue loop, in wg.Wait() or in the sends on doneSignal.
C12_CycleProgress ==
    []Clean => ([]<>(pc = "sleep") /\ []<>(pc = "scan"))
C12_Witness ==
    /\ pc = "sleep" /\ cycle = MaxCycles /\ Clean
    /\ k >= 1 /\ Len(jobFuncs) > k /\ workers = 0

\* C15: whatever the spelling of the two roots, every operation has its path
\* below the destination root, and the source tree and the locations outside
\* the destination root are what the iteration's scan found.
C15_Frame ==
    /\ \A job \in Range(jobFuncs) : IsUnder(job.path, DestRoot)
    /\ \A l \in LocsOf(SrcRoot) \cup LocsOf(Outside) : fs[l] = before[l]

\* C16: whatever the spelling of the two roots, entries at the same position
\* below their roots have the same key in both snapshots, a write's path is the
\* location the destination scan reports under the write's key, and no delete
\* is planned for a position the source has.
C16_KeysConsistent ==
    /\ \A ks \in DOMAIN srcFiles, kd \in DOMAIN destFiles : ks.rel = kd.rel => ks = kd
    /\ \A w \in Range(jobFuncs) : w.kind = "write" => w.path = DestRoot \o w.key.rel
    /\ \A d \in Range(jobFuncs) :
          d.kind = "delete" => \A ks \in DOMAIN srcFiles : ks.rel # d.key.rel

\* C18: in watcher.go, once wg.Wait() has returned, and so when the next scan
\* begins, every goroutine processChanges started in the iteration has been
\* through its call: none stands before wg.Add(1), none is executing (stated
\* for the iterations whose scan could read the source root).
C18_WaitCoversSpawned ==
    (PastWait /\ Clean /\ Stat(before, SrcRoot) = "ok") =>
        /\ Range(jobFuncs) \subseteq finished
        /\ \A c \in running : c.cycle # Planned
        /\ pc = "plan" => running = {}

\* C19 as claimed: a copy that completes has written as many bytes as the
\* record of the iteration's source snapshot gives as the file's size.
C19_SizeOfRecord ==
    [][\A c \in running :
          (c.at = "io" /\ Returns(c)) =>
              Size(fs'[c.job.path].content) = Size(c.job.info.content)
      ]_vars
\* C19 as amended: the copy ends in a panic exactly when the number of bytes
\* written differs from the size copyFile's own os.Stat of the source gave at
\* the start of the copy; a copy that completes has written that many bytes.
C19_SizeOfStat ==
    [][\A c \in running :
          (c.at = "io" /\ Moves(c)) =>
              IF Size(fs[c.job.srcPath].content) = c.size
              THEN Returns(c) /\ Size(fs'[c.job.path].content) = c.size
              ELSE [c EXCEPT !.at = "panic"] \in running'
      ]_vars
C19_Witness ==
    \E c \in running :
        /\ c.at = "panic" /\ c.job.kind = "write" /\ c.job.info.kind = "file"
        /\ Stat(fs, c.job.path) = "ok" /\ fs[c.job.path].kind = "file"
        /\ Size(fs[c.job.path].content) # Size(c.job.info.content)
====
